---------------------------- MODULE Spec2Model ----------------------------
(***************************************************************************)
(* A model of chain-life (src/src/main.rs): the OAuth authorization-code   *)
(* flow (handle_auth, build_auth_url, extract_auth_code,                   *)
(* exchange_code_for_token) and the paginated activity fetch               *)
(* (fetch_strava_data_since).                                              *)
(*                                                                         *)
(* Strings that the program inspects character by character are sequences *)
(* of one-character strings; a percent escape of the wire format is one    *)
(* element ("%61").  A Result<T> is a record [ok, val, err, detail]: err   *)
(* names the failing statement of the source, detail is the text the       *)
(* error message interpolates.                                             *)
(***************************************************************************)
EXTENDS Integers, Sequences, FiniteSets, TLC

VARIABLES
    pc,                 \* position of handle_auth / of the function under test
    state,              \* handle_auth: `state`; extract_auth_code: `expected_state`
    auth_url,           \* handle_auth: `auth_url`
    redirect_url,       \* the pasted line after trim()
    extract_result,     \* value returned by extract_auth_code
    auth_code,          \* handle_auth: `auth_code`
    posts,              \* POST requests sent to the token endpoint, in order
    token_reply,        \* what came back for the POST (NoReply before it does)
    exchange_result,    \* value returned by exchange_code_for_token
    stdout,             \* what handle_auth / handle_fetch printed, in order
    main_result,        \* value the handler returns to main (NoResult while it runs)
    fpc,                \* position of fetch_strava_data_since
    allowed_types,      \* fetch_strava_data_since: `allowed_types`
    page,               \* fetch_strava_data_since: `page`
    total_distance,     \* fetch_strava_data_since: `total_distance` (meters)
    total_activities,   \* fetch_strava_data_since: `total_activities`
    filtered_activities,\* fetch_strava_data_since: `filtered_activities`
    requests,           \* GET requests sent to the activities endpoint, in order
    received,           \* successful page bodies deserialized so far, in order
    page_reply,         \* what came back for the latest GET
    answered,           \* how many GETs have had their reply handled
    stopped_by,         \* which statement left the loop: "", "empty", "short", "error"
    fetch_result,       \* value returned by fetch_strava_data_since
    cli_date,           \* Commands::Fetch: `date`
    cli_activity_types, \* Commands::Fetch: `activity_types` as typed (None: not given)
    start_date,         \* value returned by parse_date
    types_result,       \* value returned by parse_activity_types
    history,            \* the activities the provider holds (a provider with a history)
    build_client_id,    \* build_auth_url: `client_id`
    build_result        \* value returned by build_auth_url

authVars == <<pc, state, auth_url, redirect_url, extract_result, auth_code,
              posts, token_reply, exchange_result, stdout, main_result>>
fetchVars == <<fpc, allowed_types, page, total_distance, total_activities,
               filtered_activities, requests, received, page_reply, answered,
               stopped_by, fetch_result>>
cmdVars == <<cli_date, cli_activity_types, start_date, types_result, history,
             build_client_id, build_result>>
vars == <<authVars, fetchVars, cmdVars>>

-----------------------------------------------------------------------------
(* Bounds of the model.                                                    *)

\* Longest query (in name=value pairs) of a redirect URL given to extract_auth_code alone.
MaxPairs == 3
\* Longest query of a redirect URL pasted into the whole auth flow.
MaxFlowPairs == 2
\* Longest page, short of the near-full ones, the activities endpoint returns.
MaxShortPage == 2
\* Highest page number the model lets the fetch loop request.
MaxPages == 3
\* Longest text of tokens, short of the few longer ones, given to parse_activity_types.
MaxInput == 3
\* Longest client id given to build_auth_url.
MaxIdLen == 2

-----------------------------------------------------------------------------
(* Result<T> and Option<T>.                                                *)

NoText == <<>>
Ok(v) == [ok |-> TRUE, val |-> v, err |-> "", detail |-> NoText]
Err(kind, d) == [ok |-> FALSE, val |-> NoText, err |-> kind, detail |-> d]
NoResult == [ok |-> FALSE, val |-> NoText, err |-> "not returned", detail |-> NoText]

None == [some |-> FALSE, v |-> NoText]
Some(x) == [some |-> TRUE, v |-> x]

-----------------------------------------------------------------------------
(* application/x-www-form-urlencoded, as the url crate reads and writes it *)

\* Characters byte_serialize leaves as they are (the ones the model uses).
Unreserved ==
    {"a", "b", "c", "d", "e", "f", "g", "h", "i", "j", "k", "l", "m", "n", "o", "p",
     "q", "r", "s", "t", "u", "v", "w", "x", "y", "z",
     "0", "1", "2", "3", "4", "5", "6", "7", "8", "9", "*", "-", ".", "_"}

\* form_urlencoded::byte_serialize on one character.
EncodeChar(c) ==
    CASE c = " " -> "+"
      [] c \in Unreserved -> c
      [] c = "," -> "%2C"
      [] c = ":" -> "%3A"
      [] c = "/" -> "%2F"
      [] c = "+" -> "%2B"
      [] c = "%" -> "%25"
      [] c = "&" -> "%26"
      [] c = "=" -> "%3D"

Encode(s) == [i \in 1..Len(s) |-> EncodeChar(s[i])]

\* form_urlencoded::parse on one element of a raw name or value: '+' is a
\* space, a percent escape is the character it names.
DecodeChar(c) ==
    CASE c = "+" -> " "
      [] c = "%61" -> "a"
      [] c = "%62" -> "b"
      [] c = "%2C" -> ","
      [] c = "%3A" -> ":"
      [] c = "%2F" -> "/"
      [] c = "%2B" -> "+"
      [] c = "%25" -> "%"
      [] c = "%26" -> "&"
      [] c = "%3D" -> "="
      [] OTHER -> c

Decode(s) == [i \in 1..Len(s) |-> DecodeChar(s[i])]

-----------------------------------------------------------------------------
(* build_auth_url                                                          *)

Str_code == <<"c", "o", "d", "e">>
Str_force == <<"f", "o", "r", "c", "e">>
Str_redirect_uri == <<"h", "t", "t", "p", ":", "/", "/", "l", "o", "c", "a", "l",
                      "h", "o", "s", "t", "/", "e", "x", "c", "h", "a", "n", "g", "e",
                      "_", "t", "o", "k", "e", "n">>
Str_scope == <<"r", "e", "a", "d", ",", "a", "c", "t", "i", "v", "i", "t", "y", ":",
               "r", "e", "a", "d", "_", "a", "l", "l">>

\* A pair whose value goes into the query as it is.
append_pair_Raw(name, value) == [name |-> name, value |-> value]

append_pair(name, value) == [name |-> name, value |-> Encode(value)]

\* The query of a URL as text: name=value, with "&" between the pairs.
RECURSIVE SerializeQuery(_)
SerializeQuery(pairs) ==
    IF pairs = <<>> THEN <<>>
    ELSE <<pairs[1].name, "=">> \o pairs[1].value
         \o (IF Len(pairs) = 1 THEN <<>> ELSE <<"&">> \o SerializeQuery(Tail(pairs)))

\* Url::to_string: the endpoint, "?", the query.
to_string(url) == <<url.endpoint, "?">> \o SerializeQuery(url.query)

build_auth_url(client_id, st) ==
    Ok(to_string([endpoint |-> "https://www.strava.com/oauth/authorize",
                  query |-> << append_pair("client_id", client_id),
                               append_pair("response_type", Str_code),
                               append_pair("redirect_uri", Str_redirect_uri),
                               append_pair("approval_prompt", Str_force),
                               append_pair("scope", Str_scope),
                               append_pair("state", st) >>]))

-----------------------------------------------------------------------------
(* extract_auth_code                                                       *)

\* A pasted line: either one Url::parse rejects, or a URL with a query of
\* raw name=value pairs (possibly none, possibly repeated names).
Unparseable == [parses |-> FALSE, query |-> <<>>]
ParsedUrl(q) == [parses |-> TRUE, query |-> q]

\* url.query_pairs().into_owned(): the pairs in order, values decoded.
query_pairs(url) ==
    [i \in 1..Len(url.query) |->
        [name |-> url.query[i].name, value |-> Decode(url.query[i].value)]]

\* A lookup that finds the first pair with the name (find() on the iterator).
HashMapGet_First(pairs, name) ==
    LET idx == {i \in 1..Len(pairs) : pairs[i].name = name}
    IN  IF idx = {} THEN None
        ELSE Some(pairs[CHOOSE i \in idx : \A j \in idx : i <= j].value)

\* collect() into a HashMap followed by get(name): inserting a key again
\* replaces its value, so the last pair with that name is the one found.
HashMapGet(pairs, name) ==
    LET idx == {i \in 1..Len(pairs) : pairs[i].name = name}
    IN  IF idx = {} THEN None
        ELSE Some(pairs[CHOOSE i \in idx : \A j \in idx : j <= i].value)

\* extract_auth_code that holds every state parameter of the URL against
\* the expected state, as a loop over the pairs would.
extract_auth_code_EveryState(url, expected_state) ==
    IF ~url.parses THEN Err("Invalid redirect URL format", NoText)
    ELSE
      LET pairs == query_pairs(url)
          error == HashMapGet(pairs, "error")
          code == HashMapGet(pairs, "code")
      IN  IF \E i \in 1..Len(pairs) :
                 pairs[i].name = "state" /\ pairs[i].value # expected_state
            THEN Err("State parameter mismatch. Possible CSRF attack.", NoText)
          ELSE IF error.some
            THEN Err("Authorization error", error.v)
          ELSE IF ~code.some
            THEN Err("No authorization code found in redirect URL", NoText)
          ELSE Ok(code.v)

\* extract_auth_code with the error check moved in front of the state check.
extract_auth_code_ErrorFirst(url, expected_state) ==
    IF ~url.parses THEN Err("Invalid redirect URL format", NoText)
    ELSE
      LET pairs == query_pairs(url)
          st == HashMapGet(pairs, "state")
          error == HashMapGet(pairs, "error")
          code == HashMapGet(pairs, "code")
      IN  IF error.some
            THEN Err("Authorization error", error.v)
          ELSE IF st.some /\ st.v # expected_state
            THEN Err("State parameter mismatch. Possible CSRF attack.", NoText)
          ELSE IF ~code.some
            THEN Err("No authorization code found in redirect URL", NoText)
          ELSE Ok(code.v)

\* extract_auth_code with the code looked up in front of the error check.
extract_auth_code_CodeFirst(url, expected_state) ==
    IF ~url.parses THEN Err("Invalid redirect URL format", NoText)
    ELSE
      LET pairs == query_pairs(url)
          st == HashMapGet(pairs, "state")
          error == HashMapGet(pairs, "error")
          code == HashMapGet(pairs, "code")
      IN  IF st.some /\ st.v # expected_state
            THEN Err("State parameter mismatch. Possible CSRF attack.", NoText)
          ELSE IF code.some
            THEN Ok(code.v)
          ELSE IF error.some
            THEN Err("Authorization error", error.v)
          ELSE Err("No authorization code found in redirect URL", NoText)

\* extract_auth_code with unwrap_or_default() in place of ok_or_else(..).
extract_auth_code_DefaultCode(url, expected_state) ==
    IF ~url.parses THEN Err("Invalid redirect URL format", NoText)
    ELSE
      LET pairs == query_pairs(url)
          st == HashMapGet(pairs, "state")
          error == HashMapGet(pairs, "error")
          code == HashMapGet(pairs, "code")
      IN  IF st.some /\ st.v # expected_state
            THEN Err("State parameter mismatch. Possible CSRF attack.", NoText)
          ELSE IF error.some
            THEN Err("Authorization error", error.v)
          ELSE Ok(code.v)

extract_auth_code(url, expected_state) ==
    IF ~url.parses THEN Err("Invalid redirect URL format", NoText)
    ELSE
      LET pairs == query_pairs(url)
          st == HashMapGet(pairs, "state")
          error == HashMapGet(pairs, "error")
          code == HashMapGet(pairs, "code")
      IN  IF st.some /\ st.v # expected_state
            THEN Err("State parameter mismatch. Possible CSRF attack.", NoText)
          ELSE IF error.some
            THEN Err("Authorization error", error.v)
          ELSE IF ~code.some
            THEN Err("No authorization code found in redirect URL", NoText)
          ELSE Ok(code.v)

-----------------------------------------------------------------------------
(* exchange_code_for_token                                                 *)

\* is_success taken for "not a client or server error".
is_success_Below400(status) == 400 > status /\ status >= 200

\* StatusCode::is_success: 200..=299.
is_success(status) == 300 > status /\ status >= 200

\* How a JSON value of a response body looks to serde.
JsonKinds == {"absent", "null", "string", "integer"}

\* A body that is a JSON object carrying every field of TokenResponse.
ValidTokenDoc ==
    [json |-> TRUE,
     token_type |-> "string", expires_at |-> "integer", expires_in |-> "integer",
     refresh_token |-> "string", access_token |-> "string",
     athlete |-> [kind |-> "object", id |-> "integer",
                  firstname |-> "string", lastname |-> "string"]]

TokenFields == {"token_type", "expires_at", "expires_in", "refresh_token", "access_token"}
AthleteFields == {"kind", "id", "firstname", "lastname"}
AthleteKinds == JsonKinds \cup {"object"}

\* The bodies the token endpoint may send: text that is no JSON, a JSON
\* object with none of the fields (the provider's error document), the
\* valid document, and the valid document with one field changed.
TokenBodies ==
    {[ValidTokenDoc EXCEPT !.json = FALSE]}
    \cup {[ValidTokenDoc EXCEPT ![f] = k] : f \in TokenFields, k \in JsonKinds}
    \cup {[ValidTokenDoc EXCEPT !.athlete[g] = k] : g \in AthleteFields, k \in AthleteKinds}
    \cup {[json |-> TRUE,
           token_type |-> "absent", expires_at |-> "absent", expires_in |-> "absent",
           refresh_token |-> "absent", access_token |-> "absent",
           athlete |-> [kind |-> "absent", id |-> "absent",
                        firstname |-> "absent", lastname |-> "absent"]]}

Statuses == {199, 200, 299, 300, 401}

\* What send().await and the reading of the body can come to: no response
\* at all, a status line whose body cannot be read, or a whole response.
Replies(bodies) ==
    {[delivered |-> FALSE, status |-> 200, readable |-> FALSE,
      body |-> [ValidTokenDoc EXCEPT !.json = FALSE]]}
    \cup [delivered : {TRUE}, status : Statuses, readable : {FALSE},
          body : {[ValidTokenDoc EXCEPT !.json = FALSE]}]
    \cup [delivered : {TRUE}, status : Statuses, readable : {TRUE}, body : bodies]

\* Option<String> as derived by serde: a missing field and null are None.
OptionalString(k) == IF k = "string" THEN "some" ELSE "none"

\* AthleteInfo with `id: Option<i64>`.
AthleteInfoOk_OptionalId(a) ==
    /\ a.kind = "object"
    /\ a.id \in {"absent", "null", "integer"}
    /\ a.firstname \in {"absent", "null", "string"}
    /\ a.lastname \in {"absent", "null", "string"}

\* #[derive(Deserialize)] for AthleteInfo.
AthleteInfoOk(a) ==
    /\ a.kind = "object"
    /\ a.id = "integer"
    /\ a.firstname \in {"absent", "null", "string"}
    /\ a.lastname \in {"absent", "null", "string"}

\* #[derive(Deserialize)] for TokenResponse, as response.json() applies it.
TokenResponseFromJson(doc) ==
    IF /\ doc.json
       /\ doc.token_type = "string"
       /\ doc.expires_at = "integer"
       /\ doc.expires_in = "integer"
       /\ doc.refresh_token = "string"
       /\ doc.access_token = "string"
       /\ AthleteInfoOk(doc.athlete)
    THEN Ok([token_type |-> "string", expires_at |-> "integer", expires_in |-> "integer",
             refresh_token |-> "string", access_token |-> "string",
             athlete |-> [id |-> "integer",
                          firstname |-> OptionalString(doc.athlete.firstname),
                          lastname |-> OptionalString(doc.athlete.lastname)]])
    ELSE Err("error decoding response body", NoText)

\* The form body of the POST.
TokenParams(client_id, client_secret, code) ==
    [url |-> "https://www.strava.com/oauth/token",
     client_id |-> client_id, client_secret |-> client_secret,
     code |-> code, grant_type |-> "authorization_code"]

NoReply ==
    [delivered |-> FALSE, status |-> 0, readable |-> FALSE,
     body |-> [ValidTokenDoc EXCEPT !.json = FALSE]]

\* exchange_code_for_token from the reply on: what it returns for `reply`.
exchange_code_for_token(reply) ==
    IF ~reply.delivered THEN Err("error sending request", NoText)
    ELSE IF ~is_success(reply.status)
      THEN IF ~reply.readable THEN Err("error reading response body", NoText)
           ELSE Err("Token exchange failed", reply.body)
    ELSE IF ~reply.readable THEN Err("error decoding response body", NoText)
    ELSE TokenResponseFromJson(reply.body)

-----------------------------------------------------------------------------
(* Inputs of the auth flow.                                                *)

\* Values Uuid::new_v4().to_string() may give: two distinct strings of
\* hexadecimal digits stand for them.
States == {<<"a", "b">>, <<"b">>}

ClientId == <<"1", "2", "3", "4", "5">>
ClientSecret == <<"s", "e", "c", "r", "e", "t">>

\* Parameter names of a redirect query: the three the code looks up, and
\* one it does not.
ParamNames == {"state", "code", "error", "scope"}

\* Raw parameter values: empty, the two states, a state written with a
\* percent escape, and a proper prefix of a state.
RawValues == {<<>>, <<"a", "b">>, <<"b">>, <<"%61", "b">>, <<"a">>}

RawPairs == [name : ParamNames, value : RawValues]

\* Sequences over S of length at most n.
SeqUpTo(S, n) == UNION {[1..k -> S] : k \in 0..n}

\* The lines a user may paste, with queries of at most n pairs.
RedirectInputs(n) == {Unparseable} \cup {ParsedUrl(q) : q \in SeqUpTo(RawPairs, n)}

-----------------------------------------------------------------------------
(* handle_auth                                                             *)

\* No page has been answered yet.
NoPageReply ==
    [delivered |-> FALSE, status |-> 0, readable |-> FALSE,
     body |-> [deserializes |-> FALSE, activities |-> <<>>]]

fetchIdle ==
    /\ fpc = "idle"
    /\ allowed_types = <<>>
    /\ page = 1
    /\ total_distance = 0
    /\ total_activities = 0
    /\ filtered_activities = 0
    /\ requests = <<>>
    /\ received = <<>>
    /\ page_reply = NoPageReply
    /\ answered = 0
    /\ stopped_by = ""
    /\ fetch_result = NoResult

\* A provider with nothing to serve.
NoHistory == [endless |-> FALSE, activities |-> <<>>]

cmdIdle ==
    /\ cli_date = NoText
    /\ cli_activity_types = None
    /\ start_date = NoResult
    /\ types_result = NoResult
    /\ history = NoHistory
    /\ build_client_id = NoText
    /\ build_result = NoResult

authIdle ==
    /\ state = NoText
    /\ auth_url = NoText
    /\ redirect_url = Unparseable
    /\ extract_result = NoResult
    /\ auth_code = NoText
    /\ posts = <<>>
    /\ token_reply = NoReply
    /\ exchange_result = NoResult
    /\ stdout = <<>>
    /\ main_result = NoResult

Init ==
    /\ pc = "Start"
    /\ authIdle
    /\ fetchIdle
    /\ cmdIdle

\* The `?` operator in handle_auth: the error is returned to main.
Abort(e) ==
    /\ pc' = "Aborted"
    /\ main_result' = e

\* Lines 160-164: generate the state, build the authorization URL.
BuildUrl ==
    /\ pc = "Start"
    /\ \E s \in States :
          /\ state' = s
          /\ LET r == build_auth_url(ClientId, s)
             IN  IF r.ok
                   THEN /\ auth_url' = r.val
                        /\ pc' = "URLBuilt"
                        /\ UNCHANGED main_result
                   ELSE /\ Abort(r)
                        /\ UNCHANGED auth_url
    /\ UNCHANGED <<redirect_url, extract_result, auth_code, posts, token_reply,
                   exchange_result, stdout>>
    /\ UNCHANGED fetchVars
    /\ UNCHANGED cmdVars

\* Lines 166-173: print the URL and the prompt, flush stdout.
Prompt ==
    /\ pc = "URLBuilt"
    /\ stdout' = stdout \o <<"authorize url", "Enter the redirect URL: ">>
    /\ \/ /\ pc' = "AwaitingRedirect"
          /\ UNCHANGED main_result
       \/ Abort(Err("io error", NoText))
    /\ UNCHANGED <<state, auth_url, redirect_url, extract_result, auth_code, posts,
                   token_reply, exchange_result>>
    /\ UNCHANGED fetchVars
    /\ UNCHANGED cmdVars

\* Lines 175-188: read the pasted line, trim it, extract the code.
ReadRedirect ==
    /\ pc = "AwaitingRedirect"
    /\ \/ \E line \in RedirectInputs(MaxFlowPairs) :
             LET r == extract_auth_code(line, state)
             IN  /\ redirect_url' = line
                 /\ extract_result' = r
                 /\ IF r.ok
                      THEN /\ auth_code' = r.val
                           /\ pc' = "CodeExtracted"
                           /\ UNCHANGED main_result
                      ELSE /\ Abort(r)
                           /\ UNCHANGED auth_code
       \/ /\ Abort(Err("io error", NoText))
          /\ UNCHANGED <<redirect_url, extract_result, auth_code>>
    /\ UNCHANGED <<state, auth_url, posts, token_reply, exchange_result, stdout>>
    /\ UNCHANGED fetchVars
    /\ UNCHANGED cmdVars

\* Lines 191, 292-305: exchange_code_for_token sends its POST and awaits.
PostToken ==
    /\ pc = "CodeExtracted"
    /\ posts' = Append(posts, TokenParams(ClientId, ClientSecret, auth_code))
    /\ pc' = "AwaitingToken"
    /\ UNCHANGED <<state, auth_url, redirect_url, extract_result, auth_code,
                   token_reply, exchange_result, stdout, main_result>>
    /\ UNCHANGED fetchVars
    /\ UNCHANGED cmdVars

\* TokenReply with the POST tried again when the exchange fails.
TokenReply_Retry ==
    /\ pc = "AwaitingToken"
    /\ \E reply \in Replies(TokenBodies) :
          LET r == exchange_code_for_token(reply)
          IN  /\ token_reply' = reply
              /\ exchange_result' = r
              /\ IF r.ok
                   THEN /\ stdout' = stdout \o <<"Authentication successful!", r.val.access_token>>
                        /\ pc' = "TokenExchanged"
                        /\ main_result' = Ok(NoText)
                   ELSE /\ pc' = "CodeExtracted"
                        /\ UNCHANGED <<stdout, main_result>>
    /\ UNCHANGED <<state, auth_url, redirect_url, extract_result, auth_code, posts>>
    /\ UNCHANGED fetchVars
    /\ UNCHANGED cmdVars

\* Lines 305-314 and 191-212: the reply arrives; exchange_code_for_token
\* returns, handle_auth prints the tokens or returns the error.
TokenReply ==
    /\ pc = "AwaitingToken"
    /\ \E reply \in Replies(TokenBodies) :
          LET r == exchange_code_for_token(reply)
          IN  /\ token_reply' = reply
              /\ exchange_result' = r
              /\ IF r.ok
                   THEN /\ stdout' = stdout \o <<"Authentication successful!", r.val.access_token>>
                        /\ pc' = "TokenExchanged"
                        /\ main_result' = Ok(NoText)
                   ELSE /\ Abort(r)
                        /\ UNCHANGED stdout
    /\ UNCHANGED <<state, auth_url, redirect_url, extract_result, auth_code, posts>>
    /\ UNCHANGED fetchVars
    /\ UNCHANGED cmdVars

Next ==
    \/ BuildUrl
    \/ Prompt
    \/ ReadRedirect
    \/ PostToken
    \/ TokenReply

\* The auth flow, one run of handle_auth.
Spec == Init /\ [][Next]_vars

-----------------------------------------------------------------------------
(* extract_auth_code on its own, on every input of the bounded sets.       *)

InitExtract ==
    /\ pc = "ExtractCall"
    /\ state \in States
    /\ redirect_url \in RedirectInputs(MaxPairs)
    /\ auth_url = NoText
    /\ extract_result = NoResult
    /\ auth_code = NoText
    /\ posts = <<>>
    /\ token_reply = NoReply
    /\ exchange_result = NoResult
    /\ stdout = <<>>
    /\ main_result = NoResult
    /\ fetchIdle
    /\ cmdIdle

ExtractCall ==
    /\ pc = "ExtractCall"
    /\ extract_result' = extract_auth_code(redirect_url, state)
    /\ pc' = "ExtractDone"
    /\ UNCHANGED <<state, auth_url, redirect_url, auth_code, posts, token_reply,
                   exchange_result, stdout, main_result>>
    /\ UNCHANGED fetchVars
    /\ UNCHANGED cmdVars

NextExtract == ExtractCall

SpecExtract == InitExtract /\ [][NextExtract]_vars

-----------------------------------------------------------------------------
(* fetch_strava_data_since                                                 *)

CYCLING_TYPES == <<"Ride", "VirtualRide", "EBikeRide", "MountainBikeRide", "GravelRide",
                   "Handcycle">>
RUNNING_TYPES == <<"Run", "TrailRun", "Treadmill", "VirtualRun">>
OTHER_TYPES == <<"Walk", "Hike", "Swim", "Rowing", "Kayaking", "Canoeing",
                 "StandUpPaddling", "Surfing", "Kitesurf", "Windsurf", "Sail",
                 "Snowboard", "Ski", "BackcountrySki", "NordicSki", "Snowshoe",
                 "RockClimbing", "IceClimbing", "AlpineSki", "Elliptical",
                 "StairStepper", "WeightTraining", "Workout", "Crossfit", "Yoga",
                 "Golf">>

(***************************************************************************)
(* parse_date.  A date text is a sequence of items: a run of digits, kept  *)
(* as the number of digits and their value, or a one-character separator.  *)
(***************************************************************************)
Digits(n, v) == [sep |-> "", digits |-> n, value |-> v]
Sep(c) == [sep |-> c, digits |-> 0, value |-> 0]
IsDigits(item) == item.sep = ""

IsLeapYear(y) == (y % 4 = 0 /\ y % 100 # 0) \/ y % 400 = 0

DaysInMonth(y, m) ==
    IF m = 2 THEN (IF IsLeapYear(y) THEN 29 ELSE 28)
    ELSE IF m \in {4, 6, 9, 11} THEN 30 ELSE 31

NaiveDate(y, m, d) == [year |-> y, month |-> m, day |-> d]

\* The parser that takes any month and day number for a date.
parse_date_AnyNumbers(date_str) ==
    IF /\ Len(date_str) = 5
       /\ IsDigits(date_str[1]) /\ date_str[2].sep = "-" /\ IsDigits(date_str[3])
       /\ date_str[4].sep = "-" /\ IsDigits(date_str[5])
       /\ date_str[1].digits <= 4 /\ date_str[3].digits <= 2 /\ date_str[5].digits <= 2
      THEN Ok(NaiveDate(date_str[1].value, date_str[3].value, date_str[5].value))
      ELSE Err("Date must be in YYYY-MM-DD format", NoText)

\* NaiveDate::parse_from_str(date_str, "%Y-%m-%d"): a year of at most four
\* digits, a month and a day of at most two, "-" between them, nothing
\* after, and the three numbers name a day of the calendar.
parse_date(date_str) ==
    IF /\ Len(date_str) = 5
       /\ IsDigits(date_str[1]) /\ date_str[2].sep = "-" /\ IsDigits(date_str[3])
       /\ date_str[4].sep = "-" /\ IsDigits(date_str[5])
       /\ date_str[1].digits <= 4 /\ date_str[3].digits <= 2 /\ date_str[5].digits <= 2
       /\ date_str[3].value \in 1..12
       /\ date_str[5].value \in 1..DaysInMonth(date_str[1].value, date_str[3].value)
      THEN Ok(NaiveDate(date_str[1].value, date_str[3].value, date_str[5].value))
      ELSE Err("Date must be in YYYY-MM-DD format", NoText)

\* start_date.and_hms_opt(0, 0, 0).unwrap().and_utc().timestamp(): the
\* seconds from 1970-01-01 to the midnight that starts the day.
Timestamp(date) ==
    LET y == IF date.month <= 2 THEN date.year - 1 ELSE date.year
        mp == IF date.month > 2 THEN date.month - 3 ELSE date.month + 9
        era == y \div 400
        yoe == y - era * 400
        doy == (153 * mp + 2) \div 5 + date.day - 1
        doe == yoe * 365 + yoe \div 4 - yoe \div 100 + doy
    IN  (era * 146097 + doe - 719468) * 86400

(***************************************************************************)
(* parse_activity_types.  The text of the option is a sequence of tokens:  *)
(* a comma, a white-space character, or a word.                            *)
(***************************************************************************)
Words == {"cycling", "Cycling", "running", "RUNNING", "all", "All", "Run", "Walk"}
Whitespace == {" ", "\t"}
Tokens == Words \cup {",", " "}

\* char::to_lowercase on the letters of a token.
LowerToken(t) ==
    CASE t = "Cycling" -> "cycling"
      [] t = "RUNNING" -> "running"
      [] t = "All" -> "all"
      [] t = "Run" -> "run"
      [] t = "Walk" -> "walk"
      [] t = "Yoga" -> "yoga"
      [] t \in {"cycling", "running", "all", ",", " ", "\t"} -> t

\* The tokens of a text put together as one string.
RECURSIVE Text(_)
Text(part) == IF part = <<>> THEN "" ELSE part[1] \o Text(Tail(part))

\* str::to_lowercase that leaves every letter as it is.
to_lowercase_Identity(part) == Text(part)

\* str::to_lowercase
to_lowercase(part) == Text([i \in 1..Len(part) |-> LowerToken(part[i])])

\* str::trim that takes nothing away.
trim_Nothing(part) == part

\* str::trim: white space goes from both ends, never from the middle.
RECURSIVE trim(_)
trim(part) ==
    IF part = <<>> THEN part
    ELSE IF part[1] \in Whitespace THEN trim(Tail(part))
    ELSE IF part[Len(part)] \in Whitespace THEN trim(SubSeq(part, 1, Len(part) - 1))
    ELSE part

\* str::split(','): the pieces between the commas, in order; a text with
\* no comma is one piece, the empty text included.
RECURSIVE split(_)
split(input) ==
    IF \A i \in 1..Len(input) : input[i] # ","
      THEN <<input>>
      ELSE LET i == CHOOSE k \in 1..Len(input) :
                        input[k] = "," /\ \A j \in 1..(k - 1) : input[j] # ","
           IN  <<SubSeq(input, 1, i - 1)>> \o split(SubSeq(input, i + 1, Len(input)))

\* One turn of `for part in input.split(',')` (lines 432-452).
AddPart(types, raw) ==
    LET part == trim(raw)
        lower == to_lowercase(part)
    IN  IF part = <<>> THEN types
        ELSE IF lower = "cycling" THEN types \o CYCLING_TYPES
        ELSE IF lower = "running" THEN types \o RUNNING_TYPES
        ELSE IF lower = "all" THEN types \o CYCLING_TYPES \o RUNNING_TYPES \o OTHER_TYPES
        ELSE Append(types, Text(part))

RECURSIVE ForParts(_, _)
ForParts(types, parts) ==
    IF parts = <<>> THEN types
    ELSE ForParts(AddPart(types, parts[1]), Tail(parts))

parse_activity_types(input) ==
    LET types == ForParts(<<>>, split(input))
    IN  IF types = <<>> THEN Err("No valid activity types specified", NoText)
        ELSE Ok(types)

\* #[arg(short = 'a', long, default_value = "cycling")]
DefaultActivityTypes_All == <<"all">>
DefaultActivityTypes == <<"cycling">>

\* The value clap hands to handle_fetch for an option given or left out.
ActivityTypesArg(given) == IF given.some THEN given.v ELSE DefaultActivityTypes

\* `let per_page = 200`
per_page == 200

\* Vec::contains
Contains(v, x) == \E i \in 1..Len(v) : v[i] = x

\* total_distance / 1000.0, kept as the quotient it denotes.
Div(a, b) == [num |-> a, den |-> b]

\* The accumulator of the loop.
Acc(d, n, f) == [total_distance |-> d, total_activities |-> n, filtered_activities |-> f]

\* A turn of the loop that adds the distance whatever the type.
AddActivity_Unfiltered(acc, activity, allowed) ==
    IF Contains(allowed, activity.activity_type)
      THEN Acc(acc.total_distance + activity.distance, acc.total_activities + 1,
               acc.filtered_activities)
      ELSE Acc(acc.total_distance + activity.distance, acc.total_activities,
               acc.filtered_activities + 1)

\* A turn of the loop with `=` in place of `+=`.
AddActivity_Overwrite(acc, activity, allowed) ==
    IF Contains(allowed, activity.activity_type)
      THEN Acc(activity.distance, acc.total_activities + 1, acc.filtered_activities)
      ELSE Acc(acc.total_distance, acc.total_activities, acc.filtered_activities + 1)

\* A turn of the loop that counts an included activity as excluded too.
AddActivity_NoElse(acc, activity, allowed) ==
    IF Contains(allowed, activity.activity_type)
      THEN Acc(acc.total_distance + activity.distance, acc.total_activities + 1,
               acc.filtered_activities + 1)
      ELSE Acc(acc.total_distance, acc.total_activities, acc.filtered_activities + 1)

\* One turn of `for activity in &activities` (lines 379-404).
AddActivity(acc, activity, allowed) ==
    IF Contains(allowed, activity.activity_type)
      THEN Acc(acc.total_distance + activity.distance, acc.total_activities + 1,
               acc.filtered_activities)
      ELSE Acc(acc.total_distance, acc.total_activities, acc.filtered_activities + 1)

\* The for loop over activities[lo..hi] (lines 378-405), in page order: the
\* left half runs first and its accumulator, once computed, is the one the
\* right half starts from.
RECURSIVE ForActivities(_, _, _, _, _)
ForActivities(acc, activities, lo, hi, allowed) ==
    IF lo > hi THEN acc
    ELSE IF lo = hi THEN AddActivity(acc, activities[lo], allowed)
    ELSE LET mid == (lo + hi) \div 2
         IN  CHOOSE r \in {ForActivities(left, activities, mid + 1, hi, allowed) :
                              left \in {ForActivities(acc, activities, lo, mid, allowed)}} : TRUE

\* The test with `<=` in place of `<`.
is_last_page_Le(n) == n <= per_page

\* The test that never holds.
is_last_page_Never(n) == FALSE

\* `activities.len() < per_page` (line 408).
is_last_page(n) == n < per_page

\* The activities a page may hold: whole meters, for which the f64 sum is exact.
ActivityTypes == {"Ride", "Run", "Yoga"}
Distances == {1000, 2500}
\* `distance: f64` takes any JSON number, one below zero included.
BelowZero == [activity_type |-> "Ride", distance |-> -500]
Activities == [activity_type : ActivityTypes, distance : Distances] \cup {BelowZero}

\* A page of n activities that alternates a and b.
Alternating(n, a, b) == [i \in 1..n |-> IF i % 2 = 1 THEN a ELSE b]

\* Pages with one activity fewer than per_page, with per_page, and with one more.
NearFullPages ==
    {Alternating(n, [activity_type |-> "Ride", distance |-> 1000],
                    [activity_type |-> "Run", distance |-> 2500]) :
        n \in {per_page - 1, per_page, per_page + 1}}
    \cup {Alternating(per_page, [activity_type |-> "Yoga", distance |-> 2500],
                                [activity_type |-> "Yoga", distance |-> 2500])}

ShortPages ==
    SeqUpTo([activity_type : ActivityTypes, distance : Distances], MaxShortPage)
    \cup {<<BelowZero>>,
          <<[activity_type |-> "Ride", distance |-> 1000], BelowZero>>,
          <<BelowZero, [activity_type |-> "Run", distance |-> 2500]>>}

\* Bodies of the activities endpoint: a JSON array of Activity records, or
\* something response.json() cannot turn into Vec<Activity>.
PageBodies ==
    [deserializes : {TRUE}, activities : ShortPages \cup NearFullPages]
    \cup {[deserializes |-> FALSE, activities |-> <<>>]}

PageReplies ==
    {[delivered |-> FALSE, status |-> 200, readable |-> FALSE,
      body |-> [deserializes |-> FALSE, activities |-> <<>>]]}
    \cup [delivered : {TRUE}, status : Statuses, readable : {FALSE},
          body : {[deserializes |-> FALSE, activities |-> <<>>]}]
    \cup [delivered : {TRUE}, status : {200}, readable : {TRUE}, body : PageBodies]
    \cup [delivered : {TRUE}, status : {299}, readable : {TRUE},
          body : {b \in PageBodies : Len(b.activities) \in {0, 1, per_page}}]
    \cup [delivered : {TRUE}, status : {199, 300, 401}, readable : {TRUE},
          body : {[deserializes |-> FALSE, activities |-> <<>>],
                  [deserializes |-> TRUE, activities |-> <<>>]}]

\* The filters given to the fetch: the expansions of "cycling" and
\* "running", a list of literal tags, and the empty list.
AllowedTypeLists == {CYCLING_TYPES, RUNNING_TYPES, <<"Run", "Yoga">>, <<>>}

\* The arguments of a call: a start date and a filter.
StartDates == {NaiveDate(2024, 1, 1)}

InitFetch ==
    /\ pc = "Fetch"
    /\ authIdle
    /\ cli_date = NoText
    /\ cli_activity_types = None
    /\ start_date \in {Ok(d) : d \in StartDates}
    /\ types_result = NoResult
    /\ history = NoHistory
    /\ build_client_id = NoText
    /\ build_result = NoResult
    /\ fpc = "request"
    /\ allowed_types \in AllowedTypeLists
    /\ page = 1
    /\ total_distance = 0
    /\ total_activities = 0
    /\ filtered_activities = 0
    /\ requests = <<>>
    /\ received = <<>>
    /\ page_reply = NoPageReply
    /\ answered = 0
    /\ stopped_by = ""
    /\ fetch_result = NoResult

\* The GET for one page (lines 349-357).
PageRequest(p) ==
    [url |-> "https://www.strava.com/api/v3/athlete/activities",
     after |-> Timestamp(start_date.val), page |-> p, per_page |-> per_page]

\* A GET that goes out while the one before it is still unanswered.
SendRequest_NoAwait ==
    /\ fpc \in {"request", "await"}
    /\ page <= MaxPages
    /\ Len(requests) < page + 1
    /\ requests' = Append(requests, PageRequest(Len(requests) + 1))
    /\ fpc' = "await"
    /\ UNCHANGED <<allowed_types, page, total_distance, total_activities,
                   filtered_activities, received, page_reply, answered, stopped_by,
                   fetch_result>>
    /\ UNCHANGED authVars
    /\ UNCHANGED cmdVars

\* Lines 349-358: the GET for the current page is sent and awaited.
SendRequest ==
    /\ fpc = "request"
    /\ page <= MaxPages
    /\ requests' = Append(requests, PageRequest(page))
    /\ fpc' = "await"
    /\ UNCHANGED <<allowed_types, page, total_distance, total_activities,
                   filtered_activities, received, page_reply, answered, stopped_by,
                   fetch_result>>
    /\ UNCHANGED authVars
    /\ UNCHANGED cmdVars

\* A failure that hands back what was summed so far.
FetchFails_Partial(e) ==
    /\ fpc' = "done"
    /\ stopped_by' = "error"
    /\ fetch_result' = Ok(Div(total_distance, 1000))
    /\ UNCHANGED <<page, total_distance, total_activities, filtered_activities, received>>

\* `return Err(..)` and the `?` operator inside the loop.
FetchFails(e) ==
    /\ fpc' = "done"
    /\ stopped_by' = "error"
    /\ fetch_result' = e
    /\ UNCHANGED <<page, total_distance, total_activities, filtered_activities, received>>

\* A return that takes a fetch without a counted activity for a failure.
FetchReturns_NothingIsAnError(by, acc) ==
    /\ fpc' = "done"
    /\ stopped_by' = by
    /\ fetch_result' = IF acc.total_activities = 0
                         THEN Err("No activities found", NoText)
                         ELSE Ok(Div(acc.total_distance, 1000))
    /\ UNCHANGED page

\* Leaving the loop by `break`: lines 415-425.
FetchReturns(by, acc) ==
    /\ fpc' = "done"
    /\ stopped_by' = by
    /\ fetch_result' = Ok(Div(acc.total_distance, 1000))
    /\ UNCHANGED page

\* Lines 358-413 for one reply: the rest of the loop body.
HandleReply(reply) ==
    /\ page_reply' = reply
    /\ answered' = answered + 1
    /\ IF ~reply.delivered THEN FetchFails(Err("error sending request", NoText))
       ELSE IF ~is_success(reply.status)
         THEN IF ~reply.readable
                THEN FetchFails(Err("error reading response body", NoText))
                ELSE FetchFails(Err("Strava API error", reply.body))
       ELSE IF ~reply.readable \/ ~reply.body.deserializes
         THEN FetchFails(Err("error decoding response body", NoText))
       ELSE
         LET activities == reply.body.activities
             before == Acc(total_distance, total_activities, filtered_activities)
             after == ForActivities(before, activities, 1, Len(activities), allowed_types)
         IN  /\ received' = Append(received, activities)
             /\ IF Len(activities) = 0
                  THEN /\ FetchReturns("empty", before)
                       /\ UNCHANGED <<total_distance, total_activities,
                                      filtered_activities>>
                  ELSE /\ total_distance' = after.total_distance
                       /\ total_activities' = after.total_activities
                       /\ filtered_activities' = after.filtered_activities
                       /\ IF is_last_page(Len(activities))
                            THEN FetchReturns("short", after)
                            ELSE /\ page' = page + 1
                                 /\ fpc' = "request"
                                 /\ UNCHANGED <<stopped_by, fetch_result>>
    /\ UNCHANGED <<allowed_types, requests>>
    /\ UNCHANGED authVars
    /\ UNCHANGED cmdVars

\* Lines 358-413: the reply arrives, whatever it is, and is handled.
PageReply ==
    /\ fpc = "await"
    /\ \E reply \in PageReplies : HandleReply(reply)

NextFetch ==
    \/ SendRequest
    \/ PageReply

\* One call of fetch_strava_data_since.
SpecFetch == InitFetch /\ [][NextFetch]_vars

(***************************************************************************)
(* A fetch against a provider that holds a history of activities and       *)
(* serves it page by page, every response a success; or that has a full    *)
(* page for every request.                                                 *)
(***************************************************************************)
\* How many activities a history holds: some full pages and a rest that is
\* nearly nothing or nearly a page.
HistorySizes ==
    {k * per_page + r : k \in 0..(MaxPages - 1),
                        r \in (0..9) \cup ((per_page - 10)..(per_page - 1))}

Histories ==
    {[endless |-> FALSE,
      activities |-> Alternating(n, [activity_type |-> "Ride", distance |-> 1000],
                                    [activity_type |-> "Run", distance |-> 2500])] :
        n \in HistorySizes}
    \cup {[endless |-> TRUE, activities |-> <<>>]}

\* The activities the provider has for page p when asked for n per page.
HistoryPage(h, p, n) ==
    IF h.endless
      THEN Alternating(n, [activity_type |-> "Ride", distance |-> 1000],
                          [activity_type |-> "Run", distance |-> 2500])
      ELSE LET first == (p - 1) * n + 1
               last == IF p * n < Len(h.activities) THEN p * n ELSE Len(h.activities)
           IN  IF first > last THEN <<>> ELSE SubSeq(h.activities, first, last)

InitHistory ==
    /\ pc = "Fetch"
    /\ authIdle
    /\ cli_date = NoText
    /\ cli_activity_types = None
    /\ start_date \in {Ok(d) : d \in StartDates}
    /\ types_result = NoResult
    /\ history \in Histories
    /\ build_client_id = NoText
    /\ build_result = NoResult
    /\ fpc = "request"
    /\ allowed_types = CYCLING_TYPES
    /\ page = 1
    /\ total_distance = 0
    /\ total_activities = 0
    /\ filtered_activities = 0
    /\ requests = <<>>
    /\ received = <<>>
    /\ page_reply = NoPageReply
    /\ answered = 0
    /\ stopped_by = ""
    /\ fetch_result = NoResult

\* Lines 358-413 when the provider answers the request with its page.
ProviderReply ==
    /\ fpc = "await"
    /\ \E served \in {HistoryPage(history, requests[Len(requests)].page,
                                    requests[Len(requests)].per_page)} :
          HandleReply([delivered |-> TRUE, status |-> 200, readable |-> TRUE,
                       body |-> [deserializes |-> TRUE, activities |-> served]])

NextHistory ==
    \/ SendRequest
    \/ ProviderReply

\* The call runs on while it has a step to take: the runtime drives the
\* future of the `fetch` command to its end, and this provider answers.
SpecHistory == InitHistory /\ [][NextHistory]_vars /\ WF_vars(NextHistory)

(***************************************************************************)
(* handle_fetch (lines 215-244): the `fetch` command from its arguments to *)
(* the line it prints.                                                     *)
(***************************************************************************)
CmdDates ==
    {<<Digits(4, 2024), Sep("-"), Digits(2, 1), Sep("-"), Digits(2, 1)>>,
     <<Digits(2, 1), Sep("-"), Digits(2, 1), Sep("-"), Digits(4, 2024)>>,
     <<Digits(4, 2024), Sep("-"), Digits(2, 13), Sep("-"), Digits(2, 45)>>,
     <<Digits(4, 2023), Sep("-"), Digits(2, 2), Sep("-"), Digits(2, 29)>>,
     <<Digits(4, 2024), Sep("/"), Digits(2, 1), Sep("/"), Digits(2, 1)>>,
     <<>>}

CmdActivityTypes ==
    {None, Some(<<"Run", ",", " ", "Walk">>), Some(<<>>), Some(<<" ", ",", "\t">>)}

\* format!("{:.2}", total_km): the hundredths of a kilometer.  The totals
\* here are whole tens of meters, so no digit is rounded away.
FormatKm(total_km) == [hundredths |-> (total_km.num * 100) \div total_km.den]

InitFetchCmd ==
    /\ pc = "FetchCmd"
    /\ authIdle
    /\ fetchIdle
    /\ cli_date \in CmdDates
    /\ cli_activity_types \in CmdActivityTypes
    /\ start_date = NoResult
    /\ types_result = NoResult
    /\ history = NoHistory
    /\ build_client_id = NoText
    /\ build_result = NoResult

\* Line 221: parse_date(&date).context("Failed to parse the provided date")?
ParseDate ==
    /\ pc = "FetchCmd"
    /\ start_date' = parse_date(cli_date)
    /\ IF start_date'.ok
         THEN /\ pc' = "DateParsed"
              /\ UNCHANGED main_result
         ELSE /\ pc' = "Failed"
              /\ main_result' = Err("Failed to parse the provided date", start_date'.err)
    /\ UNCHANGED <<state, auth_url, redirect_url, extract_result, auth_code, posts,
                   token_reply, exchange_result, stdout>>
    /\ UNCHANGED fetchVars
    /\ UNCHANGED <<cli_date, cli_activity_types, types_result, history,
                   build_client_id, build_result>>

\* Line 228: parse_activity_types(&activity_types)?, then the call of line 236.
ParseTypes ==
    /\ pc = "DateParsed"
    /\ types_result' = parse_activity_types(ActivityTypesArg(cli_activity_types))
    /\ IF types_result'.ok
         THEN /\ pc' = "Fetching"
              /\ fpc' = "request"
              /\ allowed_types' = types_result'.val
              /\ UNCHANGED main_result
         ELSE /\ pc' = "Failed"
              /\ main_result' = types_result'
              /\ UNCHANGED <<fpc, allowed_types>>
    /\ UNCHANGED <<state, auth_url, redirect_url, extract_result, auth_code, posts,
                   token_reply, exchange_result, stdout>>
    /\ UNCHANGED <<page, total_distance, total_activities, filtered_activities,
                   requests, received, page_reply, answered, stopped_by, fetch_result>>
    /\ UNCHANGED <<cli_date, cli_activity_types, start_date, history,
                   build_client_id, build_result>>

\* Lines 236-243: the `?` on the fetch, then the println! of the total.
FetchReturned ==
    /\ pc = "Fetching"
    /\ fpc = "done"
    /\ IF fetch_result.ok
         THEN /\ pc' = "Printed"
              /\ stdout' = stdout \o <<"Total kilometers since", cli_date,
                                       FormatKm(fetch_result.val)>>
              /\ main_result' = Ok(NoText)
         ELSE /\ pc' = "Failed"
              /\ main_result' = fetch_result
              /\ UNCHANGED stdout
    /\ UNCHANGED <<state, auth_url, redirect_url, extract_result, auth_code, posts,
                   token_reply, exchange_result>>
    /\ UNCHANGED fetchVars
    /\ UNCHANGED cmdVars

NextFetchCmd ==
    \/ ParseDate
    \/ ParseTypes
    \/ SendRequest
    \/ PageReply
    \/ FetchReturned

\* One run of the `fetch` command.
SpecFetchCmd == InitFetchCmd /\ [][NextFetchCmd]_vars

(***************************************************************************)
(* parse_activity_types called on its own, on every short text of tokens   *)
(* and on a few longer ones.                                               *)
(***************************************************************************)
TypeInputs ==
    SeqUpTo(Tokens, MaxInput)
    \cup {<<"cycling", ",", "Run", ",", "Walk">>,
          <<"\t", "Run", " ", "Walk", " ", ",", "\t", ",", "RUNNING">>}

InitParse ==
    /\ pc = "ParseCall"
    /\ authIdle
    /\ fetchIdle
    /\ cli_date = NoText
    /\ cli_activity_types \in {Some(input) : input \in TypeInputs}
    /\ start_date = NoResult
    /\ types_result = NoResult
    /\ history = NoHistory
    /\ build_client_id = NoText
    /\ build_result = NoResult

ParseCall ==
    /\ pc = "ParseCall"
    /\ types_result' = parse_activity_types(cli_activity_types.v)
    /\ pc' = "ParseDone"
    /\ UNCHANGED <<state, auth_url, redirect_url, extract_result, auth_code, posts,
                   token_reply, exchange_result, stdout, main_result>>
    /\ UNCHANGED fetchVars
    /\ UNCHANGED <<cli_date, cli_activity_types, start_date, history,
                   build_client_id, build_result>>

NextParse == ParseCall

\* One call of parse_activity_types.
SpecParse == InitParse /\ [][NextParse]_vars

(***************************************************************************)
(* build_auth_url called on its own, twice with the same arguments.        *)
(***************************************************************************)
UrlChars == {"a", "1", " ", "&", "=", "+"}
ClientIds == SeqUpTo(UrlChars, MaxIdLen)
BuildStates ==
    States \cup SeqUpTo(UrlChars, 1) \cup {<<"a", "&", "s", "t", "a", "t", "e", "=", "1">>}

InitBuild ==
    /\ pc = "BuildCall"
    /\ state \in BuildStates
    /\ build_client_id \in ClientIds
    /\ build_result = NoResult
    /\ auth_url = NoText
    /\ redirect_url = Unparseable
    /\ extract_result = NoResult
    /\ auth_code = NoText
    /\ posts = <<>>
    /\ token_reply = NoReply
    /\ exchange_result = NoResult
    /\ stdout = <<>>
    /\ main_result = NoResult
    /\ fetchIdle
    /\ cli_date = NoText
    /\ cli_activity_types = None
    /\ start_date = NoResult
    /\ types_result = NoResult
    /\ history = NoHistory

BuildCall ==
    /\ pc = "BuildCall"
    /\ build_result' = build_auth_url(build_client_id, state)
    /\ pc' = "Built"
    /\ UNCHANGED <<state, auth_url, redirect_url, extract_result, auth_code, posts,
                   token_reply, exchange_result, stdout, main_result>>
    /\ UNCHANGED fetchVars
    /\ UNCHANGED <<cli_date, cli_activity_types, start_date, types_result, history,
                   build_client_id>>

BuildAgain ==
    /\ pc = "Built"
    /\ auth_url' = build_auth_url(build_client_id, state)
    /\ pc' = "BuiltTwice"
    /\ UNCHANGED <<state, redirect_url, extract_result, auth_code, posts,
                   token_reply, exchange_result, stdout, main_result>>
    /\ UNCHANGED fetchVars
    /\ UNCHANGED cmdVars

NextBuild ==
    \/ BuildCall
    \/ BuildAgain

\* Two calls of build_auth_url.
SpecBuild == InitBuild /\ [][NextBuild]_vars

-----------------------------------------------------------------------------
(* What the claims speak of, stated apart from the code's own lookups.     *)

Max(S) == CHOOSE x \in S : \A y \in S : y <= x

\* Places of the parameter `name` in the query of `url`.
ParamPlaces(url, name) == {i \in 1..Len(url.query) : url.query[i].name = name}

HasParam(url, name) == url.parses /\ ParamPlaces(url, name) # {}

\* The value of parameter `name`: that of its last occurrence, decoded.
ParamValue(url, name) == Decode(url.query[Max(ParamPlaces(url, name))].value)

\* The state check lets the URL through: no state parameter, or the expected one.
PassesStateCheck(url, expected) ==
    url.parses /\ (HasParam(url, "state") => ParamValue(url, "state") = expected)

ExtractDone == pc = "ExtractDone"

\* C1: the token-exchange POST is issued only if the state echoed in the
\* pasted redirect URL is exactly the state generated for this run; the
\* state check is never skipped.
C1_PostOnlyAfterStateMatch ==
    posts # <<>> =>
        /\ HasParam(redirect_url, "state")
        /\ \A i \in ParamPlaces(redirect_url, "state") :
              Decode(redirect_url.query[i].value) = state

\* C2: extract_auth_code fails with the state-mismatch error for every URL
\* whose state parameter is present and differs from expected_state,
\* whatever else the URL carries: no code is returned and the mismatch is
\* what is reported.
C2_StateMismatchFirst ==
    (ExtractDone /\ HasParam(redirect_url, "state")
       /\ ParamValue(redirect_url, "state") # state)
    => (~extract_result.ok
        /\ extract_result.err = "State parameter mismatch. Possible CSRF attack.")

C2_Witness ==
    /\ ExtractDone
    /\ HasParam(redirect_url, "state")
    /\ ParamValue(redirect_url, "state") # state
    /\ HasParam(redirect_url, "code")
    /\ HasParam(redirect_url, "error")
    /\ ~extract_result.ok

\* C3: extract_auth_code fails with the authorization-denied error for
\* every URL that passes the state check and carries an error parameter,
\* also when a code is present; the error carries the provider's error
\* value and no code is returned.
C3_ErrorParamDenied ==
    (ExtractDone /\ PassesStateCheck(redirect_url, state) /\ HasParam(redirect_url, "error"))
    => (~extract_result.ok
        /\ extract_result.err = "Authorization error"
        /\ extract_result.detail = ParamValue(redirect_url, "error"))

C3_Witness ==
    /\ ExtractDone
    /\ HasParam(redirect_url, "state")
    /\ ParamValue(redirect_url, "state") = state
    /\ HasParam(redirect_url, "error")
    /\ ParamValue(redirect_url, "error") # NoText
    /\ HasParam(redirect_url, "code")
    /\ extract_result.err = "Authorization error"

\* C4: extract_auth_code fails with the missing-code error for every URL
\* that passes the state check and has neither an error nor a code parameter.
C4_MissingCode ==
    (ExtractDone /\ PassesStateCheck(redirect_url, state)
       /\ ~HasParam(redirect_url, "error") /\ ~HasParam(redirect_url, "code"))
    => (~extract_result.ok
        /\ extract_result.err = "No authorization code found in redirect URL")

C4_Witness ==
    /\ ExtractDone
    /\ HasParam(redirect_url, "state")
    /\ ParamValue(redirect_url, "state") = state
    /\ ~HasParam(redirect_url, "error")
    /\ ~HasParam(redirect_url, "code")
    /\ extract_result.err = "No authorization code found in redirect URL"

\* C5, as claimed: for every URL whose state equals expected_state and that
\* has a code parameter, the result is success and the value returned is
\* the value of the code parameter.
C5_CodeWheneverStateAndCode ==
    (ExtractDone /\ HasParam(redirect_url, "state")
       /\ ParamValue(redirect_url, "state") = state
       /\ HasParam(redirect_url, "code"))
    => (extract_result.ok /\ extract_result.val = ParamValue(redirect_url, "code"))

\* C5, amended: for every URL whose state equals expected_state, that has a
\* code parameter and has no error parameter, the result is success and
\* the value returned is the value of the code parameter.
C5_CodeReturned ==
    (ExtractDone /\ HasParam(redirect_url, "state")
       /\ ParamValue(redirect_url, "state") = state
       /\ HasParam(redirect_url, "code")
       /\ ~HasParam(redirect_url, "error"))
    => (extract_result.ok /\ extract_result.val = ParamValue(redirect_url, "code"))

C5_Witness ==
    /\ ExtractDone
    /\ HasParam(redirect_url, "state")
    /\ ParamValue(redirect_url, "state") = state
    /\ Cardinality(ParamPlaces(redirect_url, "code")) = 2
    /\ ~HasParam(redirect_url, "error")
    /\ extract_result.ok
    /\ extract_result.val # NoText

\* The stage of the auth flow a position belongs to: awaiting the token
\* reply is still the stage in which the code has been extracted.
Stage(p) == IF p = "AwaitingToken" THEN "CodeExtracted" ELSE p

FlowEdges ==
    {<<"Start", "URLBuilt">>, <<"URLBuilt", "AwaitingRedirect">>,
     <<"AwaitingRedirect", "CodeExtracted">>, <<"CodeExtracted", "TokenExchanged">>}
    \cup {<<st, "Aborted">> : st \in {"Start", "URLBuilt", "AwaitingRedirect", "CodeExtracted"}}

Failed(r) == ~r.ok /\ r # NoResult

C6_Step ==
    /\ Stage(pc') # Stage(pc) => <<Stage(pc), Stage(pc')>> \in FlowEdges
    /\ pc \in {"TokenExchanged", "Aborted"} => UNCHANGED vars
    /\ Len(posts') <= 1
    /\ posts' # posts =>
          /\ pc = "CodeExtracted"
          /\ extract_result.ok
          /\ posts' = <<TokenParams(ClientId, ClientSecret, extract_result.val)>>
    /\ (Failed(extract_result') \/ Failed(exchange_result') \/ Failed(main_result'))
          => pc' = "Aborted"

\* C6: the auth flow goes through Start, URLBuilt, AwaitingRedirect,
\* CodeExtracted and then TokenExchanged or Aborted, in that order;
\* TokenExchanged and Aborted are terminal; the token endpoint gets at most
\* one POST, only after code extraction succeeded; after any failure no
\* further step or retry is made.
C6_FlowOrder == [][C6_Step]_vars

C6_Witness ==
    /\ pc = "Aborted"
    /\ Len(posts) = 1
    /\ Failed(exchange_result)
    /\ main_result = exchange_result

\* The token endpoint answered with a whole response.
Answered == exchange_result # NoResult /\ token_reply.delivered /\ token_reply.readable

SuccessRange == 200..299

\* C7: exchange_code_for_token fails with the token-exchange-failed error
\* for every response whose status is outside the success range; the
\* error's details are the response body and no TokenResponse is produced.
C7_ExchangeFailed ==
    (Answered /\ token_reply.status \notin SuccessRange)
    => (/\ ~exchange_result.ok
        /\ exchange_result.err = "Token exchange failed"
        /\ exchange_result.detail = token_reply.body
        /\ pc = "Aborted")

C7_Witness ==
    /\ Answered
    /\ token_reply.status = 300
    /\ token_reply.body = ValidTokenDoc
    /\ exchange_result.err = "Token exchange failed"

\* The required fields of TokenResponse and AthleteInfo are there, each of its type.
RequiredFieldsOk(b) ==
    /\ b.json
    /\ \A f \in {"token_type", "refresh_token", "access_token"} : b[f] = "string"
    /\ \A f \in {"expires_at", "expires_in"} : b[f] = "integer"
    /\ b.athlete.kind = "object"
    /\ b.athlete.id = "integer"

\* The whole document fits TokenResponse: the optional names are strings when given.
FitsTokenResponse(b) ==
    /\ RequiredFieldsOk(b)
    /\ \A g \in {"firstname", "lastname"} : b.athlete[g] \in {"absent", "null", "string"}

\* C8: the auth flow reaches TokenExchanged only if the token endpoint
\* answered with a success status and a body that deserializes into a
\* complete TokenResponse; a success status with a body missing or
\* mistyping a required field ends the flow in Aborted with the
\* malformed-response error.
C8_TokenExchangedOnlyIfComplete ==
    /\ pc = "TokenExchanged" =>
          /\ Answered
          /\ token_reply.status \in SuccessRange
          /\ FitsTokenResponse(token_reply.body)
          /\ \E i \in 1..Len(stdout) : stdout[i] = "Authentication successful!"
          /\ main_result.ok
    /\ (Answered /\ token_reply.status \in SuccessRange /\ ~RequiredFieldsOk(token_reply.body))
          => (pc = "Aborted" /\ main_result.err = "error decoding response body")

C8_Witness ==
    /\ pc = "Aborted"
    /\ Answered
    /\ token_reply.status = 200
    /\ token_reply.body.json
    /\ token_reply.body.athlete.kind = "object"
    /\ token_reply.body.athlete.id = "absent"
    /\ main_result.err = "error decoding response body"

\* The page just deserialized, in the state after the reply.
LastPage(pages) == pages[Len(pages)]

C9_Step ==
    /\ received' # received =>
          /\ fpc' = "done" <=> (Len(LastPage(received')) = 0
                                  \/ Len(LastPage(received')) < per_page)
          /\ Len(LastPage(received')) = per_page =>
                (fpc' = "request" /\ page' = page + 1 /\ requests' = requests)
    /\ requests' # requests =>
          /\ Len(requests') = Len(requests) + 1
          /\ LastPage(requests').page = page
          /\ LastPage(requests').page = Len(received) + 1
          /\ fpc = "request"

\* C9: after each successful page response the loop stops if and only if
\* the page is empty or has fewer than per_page items; a page of exactly
\* per_page items puts the loop back at its request, with the page number
\* one higher, and the one request made from there is for that page.
C9_StopIffShortPage == [][C9_Step]_vars

C9_Witness ==
    /\ Len(received) = 2
    /\ Len(received[1]) = per_page
    /\ Len(received[2]) = per_page - 1
    /\ Len(requests) = 2
    /\ requests[2].page = 2
    /\ fpc = "done"

\* The activities received whose type is one of `allowed`, by page and place.
MatchingPlaces(pages, allowed) ==
    UNION {{<<k, i>> : i \in {j \in 1..Len(pages[k]) :
                                 \E a \in 1..Len(allowed) :
                                    allowed[a] = pages[k][j].activity_type}} :
             k \in 1..Len(pages)}

\* Every distance an activity of the model carries.
AllDistances == {a.distance : a \in Activities}

\* The sum of the distances at `places`: each distance times the number of
\* places that hold it.
RECURSIVE SumOfDistances(_, _, _)
SumOfDistances(pages, places, ds) ==
    IF ds = {} THEN 0
    ELSE LET d == CHOOSE x \in ds : TRUE
         IN  d * Cardinality({pl \in places : pages[pl[1]][pl[2]].distance = d})
             + SumOfDistances(pages, places, ds \ {d})

\* C10: on success fetch_strava_data_since returns the sum of the distances
\* of exactly the activities, on all pages received, whose activity_type is
\* in allowed_types, divided by 1000 once at the end.
C10_SumOfMatchingDistances ==
    (fpc = "done" /\ fetch_result.ok)
    => fetch_result.val =
         [num |-> SumOfDistances(received, MatchingPlaces(received, allowed_types), AllDistances),
          den |-> 1000]

C10_Witness ==
    /\ fpc = "done"
    /\ fetch_result.ok
    /\ Len(received) = 2
    /\ Len(received[2]) = 2
    /\ <<2, 1>> \in MatchingPlaces(received, allowed_types)
    /\ <<2, 2>> \notin MatchingPlaces(received, allowed_types)
    /\ <<1, 1>> \notin MatchingPlaces(received, allowed_types)
    /\ <<1, 2>> \in MatchingPlaces(received, allowed_types)
    /\ fetch_result.val.num = 100 * 2500 + 1000

(***************************************************************************)
(* The `fetch` command.                                                    *)
(***************************************************************************)
\* The latest page request got a whole response: a status and a body.
PageAnswered == answered > 0 /\ page_reply.delivered /\ page_reply.readable

\* C11: when a page request gets a status outside the success range, at
\* the first page or after pages already summed, the fetch fails with the
\* API error whose details are the response body, the command fails with
\* it and prints no total, and no request follows the failed one.
C11_ApiErrorEndsTheFetch ==
    (PageAnswered /\ page_reply.status \notin SuccessRange)
    => (/\ fpc = "done"
        /\ ~fetch_result.ok
        /\ fetch_result.err = "Strava API error"
        /\ fetch_result.detail = page_reply.body
        /\ stdout = <<>>
        /\ pc \in {"Fetching", "Failed"}
        /\ pc = "Failed" => main_result = fetch_result
        /\ Len(requests) = answered)

C11_Witness ==
    /\ PageAnswered
    /\ page_reply.status = 401
    /\ answered = 2
    /\ Len(received) = 1
    /\ total_distance > 0
    /\ pc = "Failed"

\* The place of every activity on the pages.
AllPlaces(pages) ==
    UNION {{<<k, i>> : i \in 1..Len(pages[k])} : k \in 1..Len(pages)}

\* The places of the activities whose tag is in the set `tags`.
PlacesOf(pages, tags) ==
    {pl \in AllPlaces(pages) : pages[pl[1]][pl[2]].activity_type \in tags}

CyclingTags ==
    {"Ride", "VirtualRide", "EBikeRide", "MountainBikeRide", "GravelRide", "Handcycle"}

\* C12 as stated: when the command is given no activity types, the fetch
\* filters nothing and every activity of every received page is in the
\* total.
C12_NoTypesNoFilter ==
    (~cli_activity_types.some /\ pc = "Printed")
    => (/\ fetch_result.val =
             [num |-> SumOfDistances(received, AllPlaces(received), AllDistances),
              den |-> 1000]
        /\ filtered_activities = 0)

\* C12, amended: when the command is given no activity types, the default
\* "cycling" stands in for them: the fetch filters by the cycling tags, the
\* total is the sum over exactly the activities with one of those tags and
\* every other activity is counted as excluded.
C12_NoTypesMeansCycling ==
    (~cli_activity_types.some /\ pc \in {"Fetching", "Printed", "Failed"}
       /\ types_result # NoResult)
    => (/\ types_result.ok
        /\ {allowed_types[i] : i \in 1..Len(allowed_types)} = CyclingTags
        /\ pc = "Printed" =>
             /\ fetch_result.val =
                  [num |-> SumOfDistances(received, PlacesOf(received, CyclingTags),
                                          AllDistances),
                   den |-> 1000]
             /\ total_activities = Cardinality(PlacesOf(received, CyclingTags))
             /\ filtered_activities =
                  Cardinality(AllPlaces(received) \ PlacesOf(received, CyclingTags)))

C12_Witness ==
    /\ ~cli_activity_types.some
    /\ pc = "Printed"
    /\ Len(received) = 2
    /\ Len(received[1]) = per_page
    /\ total_activities > 0
    /\ filtered_activities > 0

\* The latest page request was answered with a success status and a body
\* that is a list of activities.
PageDelivered ==
    /\ PageAnswered
    /\ page_reply.status \in SuccessRange
    /\ page_reply.body.deserializes

\* C13: a fetch that ends without a failed request and in which no
\* received activity has a tag of allowed_types returns Ok(0.0), not an
\* error; an empty first page gives Ok(0.0) after exactly one request.
C13_NothingMatchesIsZero ==
    /\ (fpc = "done" /\ PageDelivered /\ MatchingPlaces(received, allowed_types) = {})
       => (fetch_result.ok /\ fetch_result.val = [num |-> 0, den |-> 1000])
    /\ (PageDelivered /\ received = << <<>> >>)
       => (/\ fpc = "done"
           /\ fetch_result.ok
           /\ fetch_result.val = [num |-> 0, den |-> 1000]
           /\ Len(requests) = 1)

C13_Witness ==
    /\ fpc = "done"
    /\ PageDelivered
    /\ Len(received) = 2
    /\ Len(received[1]) = per_page
    /\ Len(received[2]) = 0
    /\ allowed_types # <<>>
    /\ MatchingPlaces(received, allowed_types) = {}
    /\ fetch_result.ok

(***************************************************************************)
(* parse_activity_types.                                                   *)
(***************************************************************************)
Range(seq) == {seq[i] : i \in 1..Len(seq)}

\* The pieces of the text between its commas, each as the pair of the
\* places that bound it: 0 is the start, Len + 1 the end.
Cuts(input) == {0, Len(input) + 1} \cup {i \in 1..Len(input) : input[i] = ","}

Segments(input) ==
    {SubSeq(input, a + 1, b - 1) :
        <<a, b>> \in {c \in Cuts(input) \X Cuts(input) :
                        c[1] < c[2] /\ \A i \in (c[1] + 1)..(c[2] - 1) : input[i] # ","}}

\* A piece without the white space at its two ends.
Trimmed(seg) ==
    LET solid == {i \in 1..Len(seg) : seg[i] \notin {" ", "\t"}}
    IN  IF solid = {} THEN <<>>
        ELSE SubSeq(seg, CHOOSE i \in solid : \A j \in solid : i <= j,
                         CHOOSE i \in solid : \A j \in solid : i >= j)

SolidSegments(input) == {Trimmed(seg) : seg \in Segments(input)} \ {<<>>}

\* What a trimmed piece stands for.
TagsOf(seg) ==
    IF Len(seg) = 1 /\ seg[1] \in {"cycling", "Cycling"} THEN CyclingTags
    ELSE IF Len(seg) = 1 /\ seg[1] \in {"running", "RUNNING"} THEN Range(RUNNING_TYPES)
    ELSE IF Len(seg) = 1 /\ seg[1] \in {"all", "All"}
      THEN CyclingTags \cup Range(RUNNING_TYPES) \cup Range(OTHER_TYPES)
    ELSE {Text(seg)}

\* C14: parse_activity_types yields, as a set, the union over the trimmed
\* non-empty segments of the input of: the cycling tags for "cycling" in
\* any letter case, the running tags for "running" in any case, all three
\* tag lists for "all" in any case, and otherwise the segment as written.
C14_UnionOfSegments ==
    (pc = "ParseDone" /\ types_result.ok)
    => Range(types_result.val) =
         UNION {TagsOf(seg) : seg \in SolidSegments(cli_activity_types.v)}

C14_Witness ==
    /\ pc = "ParseDone"
    /\ cli_activity_types.v = <<"Cycling", ",", "Run">>
    /\ types_result.ok
    /\ Len(types_result.val) = 7

\* C15: parse_activity_types fails, with the no-activity-types error,
\* exactly when no segment of the input is non-empty after trimming; every
\* other input succeeds with a non-empty list.
C15_FailsIffNoSegment ==
    pc = "ParseDone"
    => /\ ~types_result.ok <=> SolidSegments(cli_activity_types.v) = {}
       /\ ~types_result.ok => types_result.err = "No valid activity types specified"
       /\ types_result.ok => types_result.val # <<>>

C15_Witness ==
    /\ pc = "ParseDone"
    /\ cli_activity_types.v = <<" ", ",", " ">>
    /\ ~types_result.ok

(***************************************************************************)
(* The order of the checks in the `fetch` command.                         *)
(***************************************************************************)
\* The day d of month m of year y is on the calendar.
OnCalendar(y, m, d) ==
    /\ d >= 1
    /\ \/ m \in {1, 3, 5, 7, 8, 10, 12} /\ d <= 31
       \/ m \in {4, 6, 9, 11} /\ d <= 30
       \/ m = 2 /\ d <= 28
       \/ m = 2 /\ d = 29 /\ y % 4 = 0 /\ (y % 100 # 0 \/ y % 400 = 0)

\* The text is four digits, "-", two digits, "-", two digits, and names a day.
IsYmdDate(text) ==
    /\ Len(text) = 5
    /\ <<text[1].sep, text[2].sep, text[3].sep, text[4].sep, text[5].sep>>
         = <<"", "-", "", "-", "">>
    /\ <<text[1].digits, text[3].digits, text[5].digits>> = <<4, 2, 2>>
    /\ OnCalendar(text[1].value, text[3].value, text[5].value)

\* The activity types the run works with: the ones given, or "cycling".
TypesText == IF cli_activity_types.some THEN cli_activity_types.v ELSE <<"cycling">>

BadDate == ~IsYmdDate(cli_date)
BadTypes == SolidSegments(TypesText) = {}

C17_NeverDown ==
    /\ total_distance' >= total_distance
    /\ total_activities' >= total_activities
    /\ filtered_activities' >= filtered_activities

\* C17 as stated: from one step of a fetch to the next the total distance,
\* the included count and the excluded count never decrease, whatever the
\* pages hold.
C17_AccumulatorMonotone == [][C17_NeverDown]_vars

C17_CountsAndPositiveSums ==
    /\ total_activities' >= total_activities
    /\ filtered_activities' >= filtered_activities
    /\ received' = received => total_distance' = total_distance
    /\ (/\ received' # received
        /\ \A i \in 1..Len(LastPage(received')) : LastPage(received')[i].distance >= 0)
       => total_distance' >= total_distance

\* C17, amended: from one step of a fetch to the next the included count
\* and the excluded count never decrease, whatever the pages hold; the
\* total distance never decreases over a page whose distances are all zero
\* or more, and changes only when a page is processed.
C17_MonotoneOnPositivePages == [][C17_CountsAndPositiveSums]_vars

C17_Witness ==
    /\ Len(received) = 2
    /\ total_activities > 100
    /\ filtered_activities > 100
    /\ total_distance > 100000
    /\ \A i \in 1..Len(received[2]) : received[2][i].distance >= 0
    /\ Len(received[2]) > 0

(***************************************************************************)
(* The order of the page requests.                                         *)
(***************************************************************************)
\* Requests sent and not yet answered.
Outstanding == Len(requests) - answered

C18_Step ==
    /\ Outstanding' \in {0, 1}
    /\ \A i \in 1..Len(requests') : requests'[i].page = i
    /\ requests' # requests =>
          /\ requests' = Append(requests, LastPage(requests'))
          /\ Outstanding = 0
          /\ fpc = "request"
          /\ Len(received) = Len(requests)
          /\ answered' = answered
    /\ answered' # answered =>
          /\ answered' = answered + 1
          /\ Outstanding = 1
          /\ requests' = requests

\* C18: the page requests of a fetch go out one at a time: never more than
\* one is unanswered, a request is sent only when the replies to all the
\* ones before it have been handled, and the k requests made ask for the
\* pages 1, 2, ..., k in this order.
C18_OneRequestAtATime == [][C18_Step]_vars

C18_Witness ==
    /\ Len(requests) = 3
    /\ answered = 2
    /\ fpc = "await"
    /\ requests[3].page = 3

(***************************************************************************)
(* build_auth_url.                                                         *)
(***************************************************************************)
\* The places that bound the pairs of the query of a URL text: the "?" and
\* every "&", and the end.
PairCuts(text) == {2, Len(text) + 1} \cup {i \in 3..Len(text) : text[i] = "&"}

\* The pairs of the query, each as the places that bound it.
PairSpans(text) ==
    {c \in PairCuts(text) \X PairCuts(text) :
        c[1] < c[2] /\ \A i \in (c[1] + 1)..(c[2] - 1) : text[i] # "&"}

\* The place of the first "=" of a pair, or the pair's end when it has none.
EqualsAt(text, span) ==
    LET eqs == {i \in (span[1] + 1)..(span[2] - 1) : text[i] = "="}
    IN  IF eqs = {} THEN span[2] ELSE CHOOSE i \in eqs : \A j \in eqs : i <= j

PairName(text, span) == Decode(SubSeq(text, span[1] + 1, EqualsAt(text, span) - 1))
PairValue(text, span) == Decode(SubSeq(text, EqualsAt(text, span) + 1, span[2] - 1))

\* The query of the text holds the parameter `name` exactly once, with `value`.
HoldsOnce(text, name, value) ==
    /\ Cardinality({sp \in PairSpans(text) : PairName(text, sp) = <<name>>}) = 1
    /\ \A sp \in PairSpans(text) :
          PairName(text, sp) = <<name>> => PairValue(text, sp) = value

\* C19: for every client_id and state build_auth_url yields a URL on the
\* authorize endpoint whose query holds exactly six parameters, each once:
\* client_id as given, response_type=code, the redirect URI,
\* approval_prompt=force, the scope, and state as given; a second call
\* with the same arguments yields the same URL.
C19_AuthUrlParameters ==
    /\ pc \in {"Built", "BuiltTwice"} =>
          /\ build_result.ok
          /\ LET text == build_result.val
             IN  /\ text[1] = "https://www.strava.com/oauth/authorize"
                 /\ text[2] = "?"
                 /\ Cardinality(PairSpans(text)) = 6
                 /\ HoldsOnce(text, "client_id", build_client_id)
                 /\ HoldsOnce(text, "response_type", <<"c", "o", "d", "e">>)
                 /\ HoldsOnce(text, "redirect_uri", Str_redirect_uri)
                 /\ HoldsOnce(text, "approval_prompt", <<"f", "o", "r", "c", "e">>)
                 /\ HoldsOnce(text, "scope", Str_scope)
                 /\ HoldsOnce(text, "state", state)
    /\ pc = "BuiltTwice" => auth_url = build_result

C19_Witness ==
    /\ pc = "BuiltTwice"
    /\ build_client_id = <<"&", "=">>
    /\ state = <<"a", "&", "s", "t", "a", "t", "e", "=", "1">>
    /\ build_result.ok

(***************************************************************************)
(* The end of the fetch loop.                                              *)
(***************************************************************************)
\* C20: against a provider that holds N activities and serves them in
\* pages of per_page, all responses successful, the fetch ends, and it ends
\* after N \div per_page + 1 requests, the last of them answered by an
\* empty page when N is a positive multiple of per_page; against a
\* provider with a full page for every request the fetch never ends.
C20_EndsAfterLastPage ==
    /\ [](~history.endless => <>(fpc = "done"))
    /\ [](fpc = "done" =>
            /\ ~history.endless
            /\ fetch_result.ok
            /\ Len(requests) = Len(history.activities) \div per_page + 1
            /\ (Len(history.activities) > 0 /\ Len(history.activities) % per_page = 0)
                 => LastPage(received) = <<>>)
    /\ [](history.endless => (fpc # "done" /\ Len(received) = answered
                                /\ \A k \in 1..Len(received) : Len(received[k]) = per_page))

C20_Witness ==
    /\ fpc = "done"
    /\ Len(history.activities) = 2 * per_page
    /\ Len(requests) = 3
    /\ LastPage(received) = <<>>
    /\ fetch_result.ok

(***************************************************************************)
(* The two counters of the fetch loop.                                     *)
(***************************************************************************)
\* How many activities the pages hold.
RECURSIVE CountOn(_)
CountOn(pages) == IF pages = <<>> THEN 0 ELSE Len(pages[1]) + CountOn(Tail(pages))

\* C21: at every point of a fetch the included count plus the excluded
\* count is the number of activities on the pages processed so far, each
\* activity being in exactly one of the two: the included are as many as
\* the activities with a tag of allowed_types, so the excluded are as many
\* as the others; this holds at the end too, for all the activities received.
C21_EveryActivityCountedOnce ==
    /\ total_activities + filtered_activities = CountOn(received)
    /\ total_activities = Cardinality(MatchingPlaces(received, allowed_types))

C21_Witness ==
    /\ fpc = "done"
    /\ fetch_result.ok
    /\ Len(received) = 3
    /\ Len(received[3]) = 2
    /\ total_activities > per_page
    /\ filtered_activities > per_page

(***************************************************************************)
(* A redirect URL that repeats a parameter.                                *)
(***************************************************************************)
\* The URL carries the parameter `name` more than once.
Repeats(url, name) == url.parses /\ Cardinality(ParamPlaces(url, name)) >= 2

\* The decoded value at place i of the query.
ValueAt(url, i) == Decode(url.query[i].value)

\* The last place of the parameter `name`.
LastPlace(url, name) ==
    CHOOSE i \in ParamPlaces(url, name) : \A j \in ParamPlaces(url, name) : j <= i

MismatchText == "State parameter mismatch. Possible CSRF attack."

\* C22: of a parameter that the redirect URL repeats, extract_auth_code
\* looks at the last occurrence only: with a repeated state the check
\* passes exactly when the last one is the expected state, whatever the
\* ones before it; with a repeated error the value reported is the last
\* one's; with a repeated code the code returned is the last one's.
C22_LastOccurrenceOnly ==
    ExtractDone =>
      /\ Repeats(redirect_url, "state") =>
            (extract_result.err = MismatchText
               <=> ValueAt(redirect_url, LastPlace(redirect_url, "state")) # state)
      /\ (Repeats(redirect_url, "error") /\ extract_result.err = "Authorization error")
            => extract_result.detail = ValueAt(redirect_url, LastPlace(redirect_url, "error"))
      /\ (Repeats(redirect_url, "code") /\ extract_result.ok)
            => extract_result.val = ValueAt(redirect_url, LastPlace(redirect_url, "code"))
      /\ (Repeats(redirect_url, "code") /\ ~HasParam(redirect_url, "error")
            /\ PassesStateCheck(redirect_url, state))
            => extract_result.ok

C22_Witness ==
    /\ ExtractDone
    /\ Len(redirect_url.query) = 3
    /\ redirect_url.query[1].name = "state"
    /\ ValueAt(redirect_url, 1) # state
    /\ redirect_url.query[2].name = "state"
    /\ ValueAt(redirect_url, 2) = state
    /\ redirect_url.query[3].name = "code"
    /\ extract_result.ok

====
